---- MODULE Spec2Model ----
(***************************************************************************)
(* The ingestion-and-fan-out hub of src/server/main.py as a state machine. *)
(*                                                                         *)
(* The server is one asyncio event loop.  The model keeps the loop's ready *)
(* queue (`ready`): every callback or task step the code schedules is a    *)
(* handle appended to it, and the loop runs the handles one at a time, in  *)
(* order, each to its next suspension point.  I/O events (a datagram, a    *)
(* line, a finished or failed websocket send, the timer) arrive in batches *)
(* of any size and order, appended to the queue; a batch is collected when *)
(* the callbacks scheduled by the loop itself have all run (AtBoundary).   *)
(***************************************************************************)
EXTENDS Integers, Sequences, FiniteSets, TLC

\* ---------------------------------------------------------------- bounds
MaxViewers == 2
MaxConns == 1
MaxEvents == 4
MaxRingLines == 21
MaxRingEvents == 3
MaxIngestEvents == 3

\* ------------------------------------------------------ program constants
APP_PORT == 8000
UDP_PORT == 9999
TCP_PORT == 9998
RING_MAXLEN == 20
HR_MAX == 260
SPO2_MAX == 100
BP_SYS_MAX == 300
BP_DIA_MAX == 200
TEMP_MIN == 25
TEMP_MAX == 45
RR_MAX == 80

VARIABLES
    latest_vitals_by_patient,  \* dict patient_id -> TelemetryMessage
    recent_alerts,             \* deque(maxlen=20), index 1 is the left end
    clients,                   \* ws_hub._clients
    tcp_connections_count,
    ready,                     \* the event loop's queue of ready handles
    bc,                        \* one record per call of ws_hub.broadcast
    ws,                        \* per viewer session: handler position, transport
    chan,                      \* per session: send_text calls not yet completed
    delivered,                 \* per session: the text frames it has received
    conn,                      \* per stream connection: handler position, buffer
    stats,                     \* position of the broadcast_cn_stats task
    env,                       \* how many inputs the environment has produced
    wire,                      \* history: the units that arrived, in arrival order
    pushed,                    \* history: every alert appended, in append order
    servers                    \* udp_transport, tcp_server, progress of on_shutdown

vars == << latest_vitals_by_patient, recent_alerts, clients, tcp_connections_count,
           ready, bc, ws, chan, delivered, conn, stats, env, wire, pushed, servers >>

Viewers == 1..MaxViewers
Conns == 1..MaxConns

\* ------------------------------------------------------------ wire inputs
\* Numbers are integers here: the real-valued fields (timestamp, spo2,
\* temperature) take integral values only.
GoodVitals(hr) ==
    [heart_rate |-> hr, spo2 |-> 97, blood_pressure_sys |-> 118,
     blood_pressure_dia |-> 76, temperature |-> 37, respiration_rate |-> 16]

TelemetryPayload(p, ts, v) == [patient_id |-> p, timestamp |-> ts, vitals |-> v]

\* what arrives on the datagram socket: bytes that do not decode, text that is
\* no JSON, JSON that is no object, or a JSON object
Datagrams ==
    { [raw |-> "undecodable"], [raw |-> "notjson"], [raw |-> "nonobject"],
      [raw |-> "object", payload |-> TelemetryPayload("p1", 1000, GoodVitals(80))],
      [raw |-> "object", payload |-> TelemetryPayload("p1", 999, GoodVitals(90))],
      [raw |-> "object", payload |-> TelemetryPayload("p2", 1001, GoodVitals(0))],
      [raw |-> "object", payload |-> TelemetryPayload("p2", 1002, GoodVitals(HR_MAX + 1))],
      [raw |-> "object", payload |-> [patient_id |-> "p1", timestamp |-> 1003]] }

AlertPayload(p, ts, sev) ==
    [patient_id |-> p, timestamp |-> ts, type |-> "fever",
     message |-> "Detected fever", severity |-> sev, vitals |-> GoodVitals(80)]

\* what a peer can write as the n-th line of the run; n tags the line (and is
\* the timestamp of an alert), so that every line is told apart from the others
Lines(n) ==
    { [n |-> n, raw |-> "undecodable"], [n |-> n, raw |-> "notjson"],
      [n |-> n, raw |-> "object", payload |-> AlertPayload("p1", n, "high")],
      [n |-> n, raw |-> "object",
       payload |-> [patient_id |-> "p1", timestamp |-> n, type |-> "fever"]] }

\* JSON objects that carry every declared field, with field values of all
\* kinds: a patient_id that is the empty string, a vital out of its range, a
\* severity outside the three the simulator writes
FieldDatagrams ==
    { [raw |-> "object", payload |-> TelemetryPayload("p1", 1000, GoodVitals(80))],
      [raw |-> "object", payload |-> TelemetryPayload("", 1001, GoodVitals(80))],
      [raw |-> "object", payload |-> TelemetryPayload("p2", 1002, GoodVitals(HR_MAX + 1))] }

FieldLines(n) ==
    { [n |-> n, raw |-> "object", payload |-> AlertPayload("p1", n, "low")],
      [n |-> n, raw |-> "object", payload |-> AlertPayload("p1", n, "critical")],
      [n |-> n, raw |-> "object",
       payload |-> [patient_id |-> "p1", timestamp |-> n, type |-> "fever",
                    message |-> "Detected fever"]] }

\* ------------------------------------------------- pydantic models, 22-40
InRange(rec, f, lo, hi) == f \in DOMAIN rec /\ rec[f] >= lo /\ rec[f] <= hi

\* a VitalSigns whose Field bounds are not enforced
VitalSignsValid_unbounded(v) ==
    {"heart_rate", "spo2", "blood_pressure_sys", "blood_pressure_dia", "temperature",
     "respiration_rate"} \subseteq DOMAIN v

VitalSignsValid(v) ==
    /\ InRange(v, "heart_rate", 0, HR_MAX)
    /\ InRange(v, "spo2", 0, SPO2_MAX)
    /\ InRange(v, "blood_pressure_sys", 0, BP_SYS_MAX)
    /\ InRange(v, "blood_pressure_dia", 0, BP_DIA_MAX)
    /\ InRange(v, "temperature", TEMP_MIN, TEMP_MAX)
    /\ InRange(v, "respiration_rate", 0, RR_MAX)

VitalSigns(v) ==
    [heart_rate |-> v.heart_rate, spo2 |-> v.spo2,
     blood_pressure_sys |-> v.blood_pressure_sys,
     blood_pressure_dia |-> v.blood_pressure_dia,
     temperature |-> v.temperature, respiration_rate |-> v.respiration_rate]

TelemetryMessageValid(p) ==
    /\ {"patient_id", "timestamp", "vitals"} \subseteq DOMAIN p
    /\ VitalSignsValid(p.vitals)

TelemetryMessage(p) ==
    [patient_id |-> p.patient_id, timestamp |-> p.timestamp, vitals |-> VitalSigns(p.vitals)]

AlertMessageValid(p) ==
    {"patient_id", "timestamp", "type", "message", "severity"} \subseteq DOMAIN p

\* fields the model does not declare (the simulator's "vitals") are ignored
AlertMessage(p) ==
    [patient_id |-> p.patient_id, timestamp |-> p.timestamp, type |-> p.type,
     message |-> p.message, severity |-> p.severity]

\* json.loads(data.decode("utf-8")) followed by Model(**payload): does it raise?
ParsesTelemetry(unit) == unit.raw = "object" /\ TelemetryMessageValid(unit.payload)
ParsesAlert(unit) == unit.raw = "object" /\ AlertMessageValid(unit.payload)

\* the well-formed ones among the lines a peer can write
GoodLines(n) == { l \in Lines(n) : ParsesAlert(l) }

\* ------------------------------------------------------------ State Store
\* a store that keeps the entry with the greater timestamp
Upsert_keep_newest(m, k, v) ==
    IF k \in DOMAIN m /\ m[k].timestamp > v.timestamp THEN m
    ELSE [x \in DOMAIN m \cup {k} |-> IF x = k THEN v ELSE m[x]]

\* latest_vitals_by_patient[k] = v, line 88
Upsert(m, k, v) == [x \in DOMAIN m \cup {k} |-> IF x = k THEN v ELSE m[x]]

\* a full ring that refuses the new alert
appendleft_drop_newest(dq, a) == IF Len(dq) >= RING_MAXLEN THEN dq ELSE <<a>> \o dq

\* deque.appendleft on a deque with maxlen: the right end is discarded
appendleft(dq, a) ==
    LET grown == <<a>> \o dq
    IN  IF Len(grown) > RING_MAXLEN THEN SubSeq(grown, 1, RING_MAXLEN) ELSE grown

\* ------------------------------------------------------------- messages
cn_info == [udp_port |-> UDP_PORT, tcp_port |-> TCP_PORT, ws_port |-> APP_PORT]

\* a snapshot that carries the ten most recent alerts only
SnapshotMessage_ten_alerts(patients, alerts) ==
    [type |-> "snapshot",
     data |-> [patients |-> patients,
               alerts |-> IF Len(alerts) > 10 THEN SubSeq(alerts, 1, 10) ELSE alerts,
               cn_info |-> cn_info]]

\* the snapshot dict of websocket_endpoint: copies of both containers
SnapshotMessage(patients, alerts) ==
    [type |-> "snapshot",
     data |-> [patients |-> patients, alerts |-> alerts, cn_info |-> cn_info]]

TelemetryEvent(t) == [type |-> "telemetry", data |-> t]
AlertEvent(a) == [type |-> "alert", data |-> a]

CnStatsMessage(n) ==
    [type |-> "cn_stats",
     data |-> [udp_port |-> UDP_PORT, tcp_port |-> TCP_PORT, ws_port |-> APP_PORT,
               tcp_connections |-> n]]

\* ------------------------------------------------------------ WebSocketHub
RECURSIVE SetToSeq(_)
SetToSeq(S) ==
    IF S = {} THEN <<>>
    ELSE LET m == CHOOSE x \in S : \A y \in S : x <= y
         IN  <<m>> \o SetToSeq(S \ {m})

\* mutant: the copy also holds the sessions whose handshake is under way
clients_snapshot_with_accepting(cs) ==
    SetToSeq(cs \cup { s \in Viewers : ws[s].pc \in {"accepting", "accepted"} })
\* line 62: clients_snapshot = list(self._clients); the set is iterated in
\* ascending order of session id
clients_snapshot(cs) == SetToSeq(cs)

\* mutant: connect leaves the set as it is
hub_add_nothing(cs, s) == cs
\* line 53 / line 57, under the lock; the lock is never held across an await,
\* so acquiring it never suspends
hub_add(cs, s) == cs \cup {s}

\* mutant: the disconnect of an absent session takes another session out
hub_discard_or_pop(cs, s) ==
    IF s \in cs \/ cs = {} THEN cs \ {s} ELSE cs \ {CHOOSE x \in cs : TRUE}
\* mutant: disconnect leaves the set as it is
hub_discard_nothing(cs, s) == cs
hub_discard(cs, s) == cs \ {s}

\* mutant: the last recipient of the copy gets no task
GatherTasks_skip_last(b, copy) ==
    [i \in 1..(Len(copy) - 1) |-> [k |-> "send_safe", b |-> b, s |-> copy[i]]]
\* lines 65-68: gather wraps each _send_safe coroutine in a task of its own
GatherTasks(b, copy) == [i \in 1..Len(copy) |-> [k |-> "send_safe", b |-> b, s |-> copy[i]]]

\* how many calls of broadcast have started to run (a call made through
\* create_task starts when its task first runs)
Issued(bcs) == Cardinality({ b \in DOMAIN bcs : bcs[b].phase # "created" })

\* the record of one call of broadcast, from line 60 to the gather; it is
\* the n-th call to run
BroadcastRecord(msg, caller, cs, n) ==
    LET copy == clients_snapshot(cs)
    IN  [msg |-> msg, caller |-> caller, copy |-> copy, set_at_copy |-> cs,
         started |-> << >>, failed |-> {}, nfinished |-> 0, issued |-> n,
         phase |-> IF copy = <<>> THEN "returned" ELSE "gathering"]

\* mutant: a transport that writes the newest frame first
send_text_newest_first(q, frame) == << frame >> \o q
\* lines 72 and 177: websocket.send_text; the frames of one websocket go out
\* in the order of the calls
send_text(q, frame) == Append(q, frame)

\* mutant: send_text is awaited bare in a plain gather
send_text_error_escapes_bare == TRUE
\* lines 65-74: does an exception of send_text leave broadcast?  _send_safe
\* catches every Exception (line 73), and gather is told to collect what its
\* tasks raise (line 67)
send_text_error_escapes == FALSE

\* ------------------------------------------------------------ the loop
\* the handles that the selector and the timer put in the queue
IOKinds == {"udp", "ws", "ws_accepted", "ws_wake", "send_wake", "tcp_conn", "tcp_data",
            "tcp_eof", "stats", "shutdown"}
AtBoundary == \A i \in DOMAIN ready : ready[i].k \in IOKinds
\* mutant: broadcast keeps the lock until its gather is complete
lock_locked_while_gathering == \E b \in DOMAIN bc : bc[b].phase = "gathering"
\* self._lock.locked() between two steps of the loop.  The three blocks under
\* the lock (lines 52-53, 56-57, 61-62) hold no await, and acquiring an
\* asyncio.Lock that is free does not suspend: the lock is released in the
\* step that took it.
lock_locked == FALSE

\* does the coroutine behind handle h reach an `async with self._lock` in its
\* next step?  connect after accept() (line 52), broadcast (line 61) in its
\* task, in the stats emitter or in a stream handler that has a valid line
\* to read, disconnect (line 56) after a failed send or a WebSocketDisconnect
HasValidLine(c) == \E i \in DOMAIN conn[c].buf : ParsesAlert(conn[c].buf[i])
RequestsLock(h) ==
    \/ h.k \in {"bcast_task", "stats"}
    \/ h.k = "ws_accepted" /\ ws[h.s].transport = "open"
    \/ h.k \in {"tcp_conn", "tcp_wake"} /\ HasValidLine(h.c)
    \/ h.k = "bcast_ret" /\ bc[h.b].caller.k = "tcp" /\ HasValidLine(bc[h.b].caller.c)
    \/ h.k = "send_safe" /\ ws[h.s].transport # "open"
    \/ h.k = "send_wake" /\ ~h.ok
    \/ /\ h.k = "ws_wake"
       /\ ws[h.s].pc \in {"snapshot", "receiving"}
       /\ h.outcome = "disconnect" \/ (h.outcome = "sent" /\ ws[h.s].transport # "open")

\* the loop runs the handle at the head of its queue; a coroutine that needs
\* the lock goes on when the lock is free
Running(kind) ==
    /\ ready # <<>>
    /\ Head(ready).k = kind
    /\ RequestsLock(Head(ready)) => ~lock_locked
\* the head handle is taken; `new` is what its run scheduled
Ran(new) == ready' = Tail(ready) \o new
Arrives(h) == AtBoundary /\ ready' = Append(ready, h)

Init ==
    /\ latest_vitals_by_patient = << >>
    /\ recent_alerts = << >>
    /\ clients = {}
    /\ tcp_connections_count = 0
    /\ ready = << [k |-> "stats"] >>     \* line 203: create_task(broadcast_cn_stats())
    /\ bc = << >>
    /\ ws = [s \in Viewers |-> [pc |-> "none", transport |-> "none", exit |-> "none",
                               joined_at |-> [datagrams |-> 0, alerts |-> 0]]]
    /\ chan = [s \in Viewers |-> << >>]
    /\ delivered = [s \in Viewers |-> << >>]
    /\ conn = [c \in Conns |-> [pc |-> "none", buf |-> << >>, eof |-> FALSE,
                                 peer_closed |-> FALSE]]
    /\ stats = "start"
    /\ env = [viewers |-> 0, datagrams |-> 0, conns |-> 0, lines |-> 0, ticks |-> 0,
              gone |-> 0]
    /\ wire = [datagrams |-> << >>, handled |-> 0, lines |-> << >>]
    /\ pushed = << >>
    /\ servers = [udp_transport |-> "open", tcp_server |-> "serving", shutdown |-> "no"]

\* --------------------------------------------------- Datagram Ingestor
DatagramArrivesFrom(D, budget) ==
    \E d \in D :
        /\ budget
        /\ Arrives([k |-> "udp", d |-> d])
        /\ env' = [env EXCEPT !.datagrams = @ + 1]
        /\ wire' = [wire EXCEPT !.datagrams = Append(@, d)]
        /\ UNCHANGED << latest_vitals_by_patient, recent_alerts, clients,
                        tcp_connections_count, bc, ws, chan, delivered, conn, stats, pushed,
                        servers >>

\* lines 82-91
datagram_received ==
    /\ Running("udp")
    /\ LET d == Head(ready).d IN
       IF ~ParsesTelemetry(d)
       THEN /\ Ran(<< >>)
            /\ UNCHANGED << latest_vitals_by_patient, bc >>
       ELSE LET telemetry == TelemetryMessage(d.payload) IN
            /\ latest_vitals_by_patient' =
                   Upsert(latest_vitals_by_patient, telemetry.patient_id, telemetry)
            /\ bc' = Append(bc, [msg |-> TelemetryEvent(telemetry), caller |-> [k |-> "udp"],
                                 copy |-> << >>, set_at_copy |-> {}, started |-> << >>,
                                 failed |-> {}, nfinished |-> 0, issued |-> 0,
                                 phase |-> "created"])
            /\ Ran(<< [k |-> "bcast_task", b |-> Len(bc) + 1] >>)
    /\ wire' = [wire EXCEPT !.handled = @ + 1]
    /\ UNCHANGED << recent_alerts, clients, tcp_connections_count, ws, chan, delivered,
                    conn, stats, env, pushed, servers >>

\* lines 59-68, first step of the task created at line 89
broadcast_task ==
    /\ Running("bcast_task")
    /\ LET b == Head(ready).b
           r == BroadcastRecord(bc[b].msg, bc[b].caller, clients, Issued(bc) + 1)
       IN  /\ bc' = [bc EXCEPT ![b] = r]
           /\ Ran(GatherTasks(b, r.copy))
    /\ UNCHANGED << latest_vitals_by_patient, recent_alerts, clients, tcp_connections_count,
                    ws, chan, delivered, conn, stats, env, wire, pushed, servers >>

\* lines 70-74, first step: send_text either raises at once (the transport is
\* gone) or queues the frame and suspends
send_safe ==
    /\ Running("send_safe")
    /\ LET b == Head(ready).b
           s == Head(ready).s
       IN  /\ bc' = [bc EXCEPT ![b].started = Append(@, s),
                                ![b].failed = IF ws[s].transport = "open" THEN @ ELSE @ \cup {s}]
           /\ IF ws[s].transport = "open"
              THEN /\ chan' = [chan EXCEPT ![s] = send_text(@, [b |-> b, msg |-> bc[b].msg])]
                   /\ Ran(<< >>)
                   /\ UNCHANGED clients
              ELSE /\ clients' = IF send_text_error_escapes THEN clients
                                   ELSE hub_discard(clients, s)
                   /\ Ran(<< [k |-> "gather_cb", b |-> b, raised |-> send_text_error_escapes] >>)
                   /\ UNCHANGED chan
    /\ UNCHANGED << latest_vitals_by_patient, recent_alerts, tcp_connections_count,
                    ws, delivered, conn, stats, env, wire, pushed, servers >>

\* lines 72-74, the task resumes from send_text
send_safe_resume ==
    /\ Running("send_wake")
    /\ LET h == Head(ready) IN
       /\ clients' = IF ~h.ok /\ ~send_text_error_escapes
                     THEN hub_discard(clients, h.s) ELSE clients
       /\ Ran(<< [k |-> "gather_cb", b |-> h.b, raised |-> ~h.ok /\ send_text_error_escapes] >>)
       /\ bc' = [bc EXCEPT ![h.b].failed = IF h.ok THEN @ ELSE @ \cup {h.s}]
    /\ UNCHANGED << latest_vitals_by_patient, recent_alerts, tcp_connections_count,
                    ws, chan, delivered, conn, stats, env, wire, pushed, servers >>

\* lines 65-68: the outer future of gather completes after the last task
GatherComplete(n, copy) == n = Len(copy)

\* gather's callback for one finished _send_safe task: it counts the task and
\* wakes the caller of broadcast when the gather is complete; an exception that
\* escaped would be raised into the caller instead
gather_done ==
    /\ Running("gather_cb")
    /\ LET b == Head(ready).b
           n == bc[b].nfinished + 1
       IN  IF Head(ready).raised /\ bc[b].phase = "gathering"
           THEN /\ bc' = [bc EXCEPT ![b].nfinished = n, ![b].phase = "raised"]
                /\ Ran(<< >>)
           ELSE /\ bc' = [bc EXCEPT ![b].nfinished = n]
                /\ Ran(IF GatherComplete(n, bc[b].copy) /\ bc[b].phase = "gathering"
                       THEN << [k |-> "bcast_ret", b |-> b] >> ELSE << >>)
    /\ UNCHANGED << latest_vitals_by_patient, recent_alerts, clients, tcp_connections_count,
                    ws, chan, delivered, conn, stats, env, wire, pushed, servers >>

\* ------------------------------------------------------ viewer sessions
ViewerConnectsWhen(budget) ==
    /\ budget
    /\ env.viewers < MaxViewers
    /\ LET s == env.viewers + 1 IN
       /\ ws' = [ws EXCEPT ![s].pc = "start", ![s].transport = "open"]
       /\ Arrives([k |-> "ws", s |-> s])
    /\ env' = [env EXCEPT !.viewers = @ + 1]
    /\ UNCHANGED << latest_vitals_by_patient, recent_alerts, clients, tcp_connections_count,
                    bc, chan, delivered, conn, stats, wire, pushed, servers >>

\* the oldest send_text call still waiting on session s completes: the frame
\* is with the viewer, and the coroutine that awaits the call is woken
SendCompletes ==
    \E s \in Viewers :
        /\ ws[s].transport = "open"
        /\ chan[s] # << >>
        /\ LET m == Head(chan[s]) IN
           /\ delivered' = [delivered EXCEPT ![s] = Append(@, m)]
           /\ Arrives(IF m.b = 0 THEN [k |-> "ws_wake", s |-> s, outcome |-> "sent"]
                      ELSE [k |-> "send_wake", b |-> m.b, s |-> s, ok |-> TRUE])
        /\ chan' = [chan EXCEPT ![s] = Tail(@)]
        /\ UNCHANGED << latest_vitals_by_patient, recent_alerts, clients,
                        tcp_connections_count, bc, ws, conn, stats, env, wire, pushed,
                        servers >>

\* the wake-ups of the coroutines whose send_text on a lost transport raises
RECURSIVE FailedSends(_, _, _)
FailedSends(s, q, how) ==
    IF q = << >> THEN << >>
    ELSE << IF Head(q).b = 0 THEN [k |-> "ws_wake", s |-> s, outcome |-> how]
            ELSE [k |-> "send_wake", b |-> Head(q).b, s |-> s, ok |-> FALSE] >>
         \o FailedSends(s, Tail(q), how)

\* the viewer closes, or its connection is lost: every waiting send_text
\* raises, and so does a waiting receive_text (WebSocketDisconnect).  What the
\* snapshot's send_text raises depends on the server library: it is
\* WebSocketDisconnect or another exception.  The receive loop also ends on
\* another exception than WebSocketDisconnect: receive_text raises KeyError
\* on a binary frame, and the server then closes the connection.
ViewerGoneWhen(budget) ==
    \E s \in Viewers, how \in {"disconnect", "error"} :
        /\ budget
        /\ AtBoundary
        /\ ws[s].transport = "open"
        /\ ws' = [ws EXCEPT ![s].transport = "broken"]
        /\ chan' = [chan EXCEPT ![s] = << >>]
        /\ ready' = ready \o FailedSends(s, chan[s], how)
                          \o (IF ws[s].pc = "receiving"
                              THEN << [k |-> "ws_wake", s |-> s, outcome |-> how] >>
                              ELSE << >>)
        /\ UNCHANGED << latest_vitals_by_patient, recent_alerts, clients,
                        tcp_connections_count, bc, delivered, conn, stats, wire, pushed,
                        servers >>
        /\ env' = [env EXCEPT !.gone = @ + 1]

\* mutant: the session is added before accept() is awaited
connect_adds_first == TRUE
\* line 51 before line 53: connect adds the session after accept() returned
connect_adds_before_accept == FALSE

\* lines 161-163, 50-51: the handler starts and awaits websocket.accept()
websocket_endpoint ==
    /\ Running("ws")
    /\ LET s == Head(ready).s IN
       /\ ws' = [ws EXCEPT ![s].pc = "accepting"]
       /\ clients' = IF connect_adds_before_accept THEN hub_add(clients, s) ELSE clients
    /\ Ran(<< >>)
    /\ UNCHANGED << latest_vitals_by_patient, recent_alerts, tcp_connections_count, bc,
                    chan, delivered, conn, stats, env, wire, pushed, servers >>

\* the handshake is done (or the viewer is gone): accept() is over
AcceptCompletes ==
    \E s \in Viewers :
        /\ ws[s].pc = "accepting"
        /\ ws' = [ws EXCEPT ![s].pc = "accepted"]
        /\ Arrives([k |-> "ws_accepted", s |-> s])
        /\ UNCHANGED << latest_vitals_by_patient, recent_alerts, clients,
                        tcp_connections_count, bc, chan, delivered, conn, stats, env, wire, pushed,
                        servers >>

\* lines 52-53 and 164-177: accept() returned (or raised: the handler ends
\* outside the try); the session joins the set, the snapshot is built and its
\* send_text is called, all without a suspension in between
websocket_endpoint_accepted ==
    /\ Running("ws_accepted")
    /\ LET s == Head(ready).s IN
       IF ws[s].transport = "open"
       THEN /\ clients' = hub_add(clients, s)
            /\ chan' = [chan EXCEPT ![s] = send_text(@,
                           [b |-> 0, msg |-> SnapshotMessage(latest_vitals_by_patient,
                                                             recent_alerts)])]
            /\ ws' = [ws EXCEPT ![s].pc = "snapshot",
                                ![s].joined_at = [datagrams |-> wire.handled,
                                                  alerts |-> Len(pushed)]]
       ELSE /\ ws' = [ws EXCEPT ![s].pc = "ended", ![s].exit = "accept_failed"]
            /\ UNCHANGED << clients, chan >>
    /\ Ran(<< >>)
    /\ UNCHANGED << latest_vitals_by_patient, recent_alerts, tcp_connections_count, bc,
                    delivered, conn, stats, env, wire, pushed, servers >>

\* lines 177-181: the handler resumes from send_text or receive_text; only
\* WebSocketDisconnect is caught
websocket_endpoint_resume ==
    /\ Running("ws_wake")
    /\ LET s == Head(ready).s
           o == Head(ready).outcome
       IN  IF ws[s].pc \notin {"snapshot", "receiving"}
           THEN UNCHANGED << ws, clients >>
           ELSE IF o = "sent" /\ ws[s].transport = "open"
           THEN /\ ws' = [ws EXCEPT ![s].pc = "receiving"]
                /\ UNCHANGED clients
           ELSE IF o = "error"
           THEN /\ ws' = [ws EXCEPT ![s].pc = "ended", ![s].exit = "error"]
                /\ UNCHANGED clients
           ELSE /\ ws' = [ws EXCEPT ![s].pc = "ended", ![s].exit = "disconnect"]
                /\ clients' = hub_discard(clients, s)
    /\ Ran(<< >>)
    /\ UNCHANGED << latest_vitals_by_patient, recent_alerts, tcp_connections_count, bc,
                    chan, delivered, conn, stats, env, wire, pushed, servers >>

\* ------------------------------------------------------ Stream Ingestor
StreamConnectsWhen(budget) ==
    /\ budget
    /\ env.conns < MaxConns
    /\ LET c == env.conns + 1 IN
       /\ conn' = [conn EXCEPT ![c].pc = "start"]
       /\ Arrives([k |-> "tcp_conn", c |-> c])
    /\ env' = [env EXCEPT !.conns = @ + 1]
    /\ UNCHANGED << latest_vitals_by_patient, recent_alerts, clients, tcp_connections_count,
                    bc, ws, chan, delivered, stats, wire, pushed, servers >>

PeerOpen(c) == conn[c].pc \notin {"none", "closing", "closed"} /\ ~conn[c].peer_closed

\* a peer writes one more line, the n-th of the run, out of the set L
LineArrivesFrom(L, budget) ==
    \E c \in Conns :
        /\ budget
        /\ PeerOpen(c)
        /\ \E l \in L :
              /\ Arrives([k |-> "tcp_data", c |-> c, line |-> l])
              /\ wire' = [wire EXCEPT !.lines = Append(@, [c |-> c, line |-> l])]
        /\ env' = [env EXCEPT !.lines = @ + 1]
        /\ UNCHANGED << latest_vitals_by_patient, recent_alerts, clients,
                        tcp_connections_count, bc, ws, chan, delivered, conn, stats, pushed,
                        servers >>

PeerClosesWhen(budget) ==
    \E c \in Conns :
        /\ budget
        /\ PeerOpen(c)
        /\ conn' = [conn EXCEPT ![c].peer_closed = TRUE]
        /\ Arrives([k |-> "tcp_eof", c |-> c])
        /\ UNCHANGED << latest_vitals_by_patient, recent_alerts, clients,
                        tcp_connections_count, bc, ws, chan, delivered, stats, wire, pushed,
                        servers >>
        /\ env' = [env EXCEPT !.gone = @ + 1]

\* StreamReader.feed_data / feed_eof: the buffer grows, and a handler waiting
\* in readline is woken
Wake(c) == IF conn[c].pc = "readline" THEN << [k |-> "tcp_wake", c |-> c] >> ELSE << >>
Woken(c) == IF conn[c].pc = "readline" THEN "woken" ELSE conn[c].pc

feed_data ==
    /\ Running("tcp_data")
    /\ LET c == Head(ready).c IN
       /\ conn' = [conn EXCEPT ![c].buf = Append(@, Head(ready).line), ![c].pc = Woken(c)]
       /\ Ran(Wake(c))
    /\ UNCHANGED << latest_vitals_by_patient, recent_alerts, clients, tcp_connections_count,
                    bc, ws, chan, delivered, stats, env, wire, pushed, servers >>

feed_eof ==
    /\ Running("tcp_eof")
    /\ LET c == Head(ready).c IN
       /\ conn' = [conn EXCEPT ![c].eof = TRUE, ![c].pc = Woken(c)]
       /\ Ran(Wake(c))
    /\ UNCHANGED << latest_vitals_by_patient, recent_alerts, clients, tcp_connections_count,
                    bc, ws, chan, delivered, stats, env, wire, pushed, servers >>

\* mutant: a handler whose except clause leaves the loop
malformed_line_breaks == TRUE

\* lines 124-126: the except clause of the loop body is `continue`
malformed_line_ends_loop == FALSE

\* lines 118-128, from the top of the while loop to the next suspension: lines
\* already buffered are read without suspending; a broadcast with no recipient
\* returns at once (line 64) and the loop goes on; the handler suspends in
\* the gather of a broadcast, or in readline on an empty buffer
RECURSIVE ReadLines(_, _, _, _, _, _)
ReadLines(c, buf, ring, log, bcs, cs) ==
    IF buf = << >> THEN [buf |-> buf, ring |-> ring, log |-> log, bcs |-> bcs, at |-> "readline"]
    ELSE IF ~ParsesAlert(Head(buf))
    THEN IF malformed_line_ends_loop
         THEN [buf |-> Tail(buf), ring |-> ring, log |-> log, bcs |-> bcs, at |-> "break"]
         ELSE ReadLines(c, Tail(buf), ring, log, bcs, cs)
    ELSE LET alert == AlertMessage(Head(buf).payload)
             r == BroadcastRecord(AlertEvent(alert), [k |-> "tcp", c |-> c], cs, Issued(bcs) + 1)
         IN  IF r.phase = "returned"
             THEN ReadLines(c, Tail(buf), appendleft(ring, alert), Append(log, alert),
                            Append(bcs, r), cs)
             ELSE [buf |-> Tail(buf), ring |-> appendleft(ring, alert),
                   log |-> Append(log, alert), bcs |-> Append(bcs, r), at |-> "broadcast"]

\* the handler runs from the top of the loop.  readline on an empty buffer
\* returns b"" after end-of-stream: break, then the finally block closes the
\* writer and awaits wait_closed (lines 131-134)
RunLoop(c) ==
    LET r == ReadLines(c, conn[c].buf, recent_alerts, pushed, bc, clients)
        ends == r.at = "break" \/ (r.at = "readline" /\ conn[c].eof)
    IN  /\ recent_alerts' = r.ring
        /\ pushed' = r.log
        /\ bc' = r.bcs
        /\ conn' = [conn EXCEPT ![c].buf = r.buf,
                                ![c].pc = IF ends THEN "closing" ELSE r.at]
        /\ Ran(IF ends THEN << [k |-> "tcp_closed", c |-> c] >>
               ELSE IF r.at = "broadcast"
               THEN GatherTasks(Len(r.bcs), r.bcs[Len(r.bcs)].copy)
               ELSE << >>)

\* lines 113-119: the handler of a new connection starts
handle_alerts_client ==
    /\ Running("tcp_conn")
    /\ tcp_connections_count' = tcp_connections_count + 1
    /\ RunLoop(Head(ready).c)
    /\ UNCHANGED << latest_vitals_by_patient, clients, ws, chan, delivered, stats, env, wire, servers >>

\* line 119: readline returns
handle_alerts_client_resume ==
    /\ Running("tcp_wake")
    /\ RunLoop(Head(ready).c)
    /\ UNCHANGED << latest_vitals_by_patient, clients, tcp_connections_count, ws, chan,
                    delivered, stats, env, wire, servers >>

\* lines 134-138: wait_closed returns
handle_alerts_client_closed ==
    /\ Running("tcp_closed")
    /\ conn' = [conn EXCEPT ![Head(ready).c].pc = "closed"]
    /\ tcp_connections_count' = tcp_connections_count - 1
    /\ Ran(<< >>)
    /\ UNCHANGED << latest_vitals_by_patient, recent_alerts, clients, bc, ws, chan,
                    delivered, stats, env, wire, pushed, servers >>

\* ------------------------------------------------- callers of broadcast
\* the gather of broadcast b is complete: its caller resumes
Returns(kind) == Running("bcast_ret") /\ bc[Head(ready).b].caller.k = kind
Returned == [bc EXCEPT ![Head(ready).b].phase = "returned"]

\* the task of line 89 ends
broadcast_returns_to_task ==
    /\ Returns("udp")
    /\ bc' = Returned
    /\ Ran(<< >>)
    /\ UNCHANGED << latest_vitals_by_patient, recent_alerts, clients, tcp_connections_count,
                    ws, chan, delivered, conn, stats, env, wire, pushed, servers >>

\* line 128 returns: the handler goes back to the top of its loop
broadcast_returns_to_handler ==
    /\ Returns("tcp")
    /\ LET c == bc[Head(ready).b].caller.c
           r == ReadLines(c, conn[c].buf, recent_alerts, pushed, Returned, clients)
           ends == r.at = "break" \/ (r.at = "readline" /\ conn[c].eof)
       IN  /\ recent_alerts' = r.ring
           /\ pushed' = r.log
           /\ bc' = r.bcs
           /\ conn' = [conn EXCEPT ![c].buf = r.buf,
                                   ![c].pc = IF ends THEN "closing" ELSE r.at]
           /\ Ran(IF ends THEN << [k |-> "tcp_closed", c |-> c] >>
                  ELSE IF r.at = "broadcast"
                  THEN GatherTasks(Len(r.bcs), r.bcs[Len(r.bcs)].copy)
                  ELSE << >>)
    /\ UNCHANGED << latest_vitals_by_patient, clients, tcp_connections_count, ws, chan,
                    delivered, stats, env, wire, servers >>

\* line 200 returns: the emitter sleeps (line 201)
broadcast_returns_to_stats ==
    /\ Returns("stats")
    /\ bc' = Returned
    /\ stats' = "sleeping"
    /\ Ran(<< >>)
    /\ UNCHANGED << latest_vitals_by_patient, recent_alerts, clients, tcp_connections_count,
                    ws, chan, delivered, conn, env, wire, pushed, servers >>

\* ------------------------------------------------ Periodic Stats Emitter
TimerFiresWhen(budget) ==
    /\ budget
    /\ stats = "sleeping"
    /\ stats' = "woken"
    /\ Arrives([k |-> "stats"])
    /\ env' = [env EXCEPT !.ticks = @ + 1]
    /\ UNCHANGED << latest_vitals_by_patient, recent_alerts, clients, tcp_connections_count,
                    bc, ws, chan, delivered, conn, wire, pushed, servers >>

\* lines 189-201: one pass of the loop, to the gather or to the sleep
broadcast_cn_stats ==
    /\ Running("stats")
    /\ LET r == BroadcastRecord(CnStatsMessage(tcp_connections_count), [k |-> "stats"], clients,
                               Issued(bc) + 1)
       IN  /\ bc' = Append(bc, r)
           /\ stats' = IF r.phase = "returned" THEN "sleeping" ELSE "broadcast"
           /\ Ran(GatherTasks(Len(bc) + 1, r.copy))
    /\ UNCHANGED << latest_vitals_by_patient, recent_alerts, clients, tcp_connections_count,
                    ws, chan, delivered, conn, env, wire, pushed, servers >>

\* --------------------------------------------------------------- shutdown
\* The process is told to stop.  The ASGI server that hosts the application
\* takes no new viewer connection from then on and has closed the ones it
\* has before it runs the shutdown handlers, so the signal is taken here
\* only when no viewer connection is open.
ShutdownBegins ==
    /\ servers.shutdown = "no"
    /\ \A s \in Viewers : ws[s].transport # "open"
    /\ servers' = [servers EXCEPT !.shutdown = "begun"]
    /\ Arrives([k |-> "shutdown"])
    /\ UNCHANGED << latest_vitals_by_patient, recent_alerts, clients, tcp_connections_count,
                    bc, ws, chan, delivered, conn, stats, env, wire, pushed >>

\* lines 205-208 with 104-108 and 145-149: udp_transport.close() removes the
\* socket's reader, so that a datagram not yet handed to datagram_received
\* is lost; tcp_server.close() stops listening.  Nothing is done to the
\* stream connections that are open, to their handlers or to the hub.
on_shutdown ==
    /\ Running("shutdown")
    /\ servers' = [servers EXCEPT !.udp_transport = "closed", !.tcp_server = "closed",
                                  !.shutdown = "waiting"]
    /\ ready' = SelectSeq(Tail(ready), LAMBDA h : h.k # "udp")
    /\ UNCHANGED << latest_vitals_by_patient, recent_alerts, clients, tcp_connections_count,
                    bc, ws, chan, delivered, conn, stats, env, wire, pushed >>

\* line 149: tcp_server.wait_closed() returns.  After close() it returns at
\* once on Python up to 3.11 and only when the last connection is gone from
\* Python 3.12 on: it may return in any state.
stop_tcp_server_returns ==
    /\ servers.shutdown = "waiting"
    /\ servers' = [servers EXCEPT !.shutdown = "done"]
    /\ UNCHANGED << latest_vitals_by_patient, recent_alerts, clients, tcp_connections_count,
                    ready, bc, ws, chan, delivered, conn, stats, env, wire, pushed >>

\* ---------------------------------------------------------- specification
Inputs == env.viewers + env.datagrams + env.conns + env.lines + env.ticks + env.gone

\* The hub, the datagram ingestor and the stream handlers under well-formed
\* units, with viewers that come and go
Budget == Inputs < MaxEvents
GoodDatagrams == { d \in Datagrams : ParsesTelemetry(d) /\ d.payload.timestamp = 1000 }

DatagramArrives == DatagramArrivesFrom(GoodDatagrams, Budget)
ViewerConnects == ViewerConnectsWhen(Budget)
ViewerGone == ViewerGoneWhen(Budget)
StreamConnects == StreamConnectsWhen(Budget)
LineArrives == LineArrivesFrom(GoodLines(env.lines + 1), Budget)
TimerFires == TimerFiresWhen(Budget)

\* what the loop runs: the steps of the hub, of the stream handlers, of the emitter
LoopHub ==
    \/ datagram_received \/ broadcast_task
    \/ send_safe \/ send_safe_resume \/ gather_done \/ broadcast_returns_to_task
    \/ websocket_endpoint \/ websocket_endpoint_accepted \/ websocket_endpoint_resume
    \/ broadcast_cn_stats
LoopStream ==
    \/ feed_data \/ handle_alerts_client \/ handle_alerts_client_resume
    \/ broadcast_returns_to_handler
Loop == LoopHub \/ LoopStream

Next ==
    \/ DatagramArrives \/ ViewerConnects \/ AcceptCompletes \/ SendCompletes \/ ViewerGone
    \/ StreamConnects \/ LineArrives
    \/ Loop

Spec == Init /\ [][Next]_vars

\* The same, with the loop never idle while a handle is ready.  No send is
\* required to complete: a viewer may stop reading for ever.
SpecFair == Init /\ [][Next]_vars /\ WF_vars(Loop)

\* The hub and the datagram ingestor alone, with viewers that come and go
NextHub ==
    \/ DatagramArrives \/ ViewerConnects \/ AcceptCompletes \/ SendCompletes \/ ViewerGone
    \/ LoopHub

SpecHub == Init /\ [][NextHub]_vars

\* The hub with the stats emitter's timer running: sessions join while
\* telemetry and cn_stats broadcasts are under way
NextStats ==
    \/ DatagramArrives \/ ViewerConnects \/ AcceptCompletes \/ SendCompletes \/ TimerFires
    \/ LoopHub \/ broadcast_returns_to_stats

SpecStats == Init /\ [][NextStats]_vars

\* The three callers of broadcast together: datagram tasks, stream handlers
\* and the stats emitter, with viewers that stay
NextOrder ==
    \/ DatagramArrives \/ ViewerConnects \/ AcceptCompletes \/ SendCompletes
    \/ StreamConnects \/ LineArrives \/ TimerFires
    \/ Loop \/ broadcast_returns_to_stats

SpecOrder == Init /\ [][NextOrder]_vars

\* The same with stream peers that close, and with the loop never idle while
\* a handle is ready; no send is required to complete
StreamCloses == PeerClosesWhen(Budget)
LoopAll ==
    \/ Loop \/ broadcast_returns_to_stats \/ feed_eof \/ handle_alerts_client_closed
NextCount ==
    \/ DatagramArrives \/ ViewerConnects \/ AcceptCompletes \/ SendCompletes
    \/ StreamConnects \/ LineArrives \/ StreamCloses \/ TimerFires
    \/ LoopAll

SpecCountFair == Init /\ [][NextCount]_vars /\ WF_vars(LoopAll)

\* The process from startup to shutdown: inputs come while the servers are up
Up == servers.shutdown = "no"
UpDatagramArrives == DatagramArrivesFrom(GoodDatagrams, Budget /\ servers.udp_transport = "open")
UpViewerConnects == ViewerConnectsWhen(Budget /\ Up)
UpStreamConnects == StreamConnectsWhen(Budget /\ servers.tcp_server = "serving")

NextShutdown ==
    \/ UpDatagramArrives \/ UpViewerConnects \/ AcceptCompletes \/ SendCompletes \/ ViewerGone
    \/ UpStreamConnects \/ LineArrives \/ StreamCloses
    \/ Loop \/ feed_eof \/ handle_alerts_client_closed
    \/ ShutdownBegins \/ on_shutdown \/ stop_tcp_server_returns

SpecShutdown == Init /\ [][NextShutdown]_vars

\* Ingestion under every kind of unit, malformed ones included; peers close
IngestBudget == Inputs < MaxIngestEvents
IngestDatagramArrives == DatagramArrivesFrom(Datagrams, IngestBudget)
IngestViewerConnects == ViewerConnectsWhen(IngestBudget)
IngestStreamConnects == StreamConnectsWhen(IngestBudget)
IngestLineArrives == LineArrivesFrom(Lines(env.lines + 1), IngestBudget)
PeerCloses == PeerClosesWhen(IngestBudget)

NextIngest ==
    \/ IngestDatagramArrives \/ IngestViewerConnects \/ AcceptCompletes \/ SendCompletes
    \/ IngestStreamConnects \/ IngestLineArrives \/ PeerCloses
    \/ LoopHub \/ LoopStream \/ feed_eof \/ handle_alerts_client_closed

SpecIngest == Init /\ [][NextIngest]_vars

\* Well-formed units and viewers that stay and go on reading: the loop is
\* never idle while a handle is ready, and a frame that was written to an
\* open connection arrives
JoinDatagramArrives == DatagramArrivesFrom(GoodDatagrams, IngestBudget)
JoinLineArrives == LineArrivesFrom(GoodLines(env.lines + 1), IngestBudget)

NextJoin ==
    \/ JoinDatagramArrives \/ IngestViewerConnects \/ AcceptCompletes \/ SendCompletes
    \/ IngestStreamConnects \/ JoinLineArrives
    \/ Loop

SpecJoin == Init /\ [][NextJoin]_vars /\ WF_vars(Loop) /\ WF_vars(SendCompletes)

\* Viewers that come and go or stop reading: the loop is never idle while a
\* handle is ready, and no send is required to complete
LockViewerGone == ViewerGoneWhen(IngestBudget)
NextLock ==
    \/ JoinDatagramArrives \/ IngestViewerConnects \/ AcceptCompletes \/ SendCompletes
    \/ LockViewerGone \/ IngestStreamConnects \/ JoinLineArrives
    \/ Loop

SpecLock == Init /\ [][NextLock]_vars /\ WF_vars(Loop)

\* Ingestion of JSON objects whose fields take values of all kinds
FieldDatagramArrives == DatagramArrivesFrom(FieldDatagrams, IngestBudget)
FieldLineArrives == LineArrivesFrom(FieldLines(env.lines + 1), IngestBudget)

NextFields ==
    \/ FieldDatagramArrives \/ IngestViewerConnects \/ AcceptCompletes \/ SendCompletes
    \/ IngestStreamConnects \/ FieldLineArrives
    \/ LoopHub \/ LoopStream

SpecFields == Init /\ [][NextFields]_vars

\* A long run of alerts: up to MaxRingLines well-formed lines, written one
\* at a time (a line is written once the lines before it were read), and at
\* most MaxRingEvents other inputs.  A first stream connection fills the ring; viewers, datagrams and further connections come once the
\* ring is one short of full, so that sessions join on both sides of its
\* capacity.
RingOthers == Inputs - env.lines < MaxRingEvents
Warm == Len(pushed) >= RING_MAXLEN - 1
Paced == env.lines = Len(pushed)
RingDatagrams == { d \in Datagrams : ParsesTelemetry(d) /\ d.payload.timestamp > 999 }
RingDatagramArrives == DatagramArrivesFrom(RingDatagrams, RingOthers /\ Warm)
RingViewerConnects == ViewerConnectsWhen(RingOthers /\ Warm)
RingStreamConnects == StreamConnectsWhen(RingOthers /\ (env.conns = 0 \/ Warm))
RingLineArrives == LineArrivesFrom(GoodLines(env.lines + 1), env.lines < MaxRingLines /\ Paced)

NextRing ==
    \/ RingDatagramArrives \/ RingViewerConnects \/ AcceptCompletes \/ SendCompletes
    \/ RingStreamConnects \/ RingLineArrives
    \/ LoopHub \/ LoopStream

SpecRing == Init /\ [][NextRing]_vars

\* =================================================================
\* Claims
\* =================================================================
IsSnapshot(f) == f.b = 0
HasFrame(s, b) ==
    \E i \in DOMAIN delivered[s] : delivered[s][i].b = b /\ delivered[s][i].msg = bc[b].msg
\* a _send_safe task of broadcast b for session s waits in the ready queue
Scheduled(b, s) ==
    \E i \in DOMAIN ready : ready[i].k = "send_safe" /\ ready[i].b = b /\ ready[i].s = s

\* C1: the first frame a viewer session receives is its snapshot, and no
\* telemetry, alert or cn_stats frame is received before it, whatever
\* broadcasts run while the session joins.
C1_SnapshotFirst ==
    \A s \in Viewers : \A i \in DOMAIN delivered[s] :
        /\ i = 1 => delivered[s][i].msg.type = "snapshot"
        /\ i > 1 => delivered[s][i].msg.type \in {"telemetry", "alert", "cn_stats"}

\* a session got its snapshot and then the broadcast of a datagram that was
\* stored before the session joined: the broadcast ran across the join
C1_Witness ==
    \E s \in Viewers :
        /\ Len(delivered[s]) >= 2
        /\ delivered[s][2].msg.type = "telemetry"
        /\ "p1" \in DOMAIN delivered[s][1].msg.data.patients
        /\ delivered[s][1].msg.data.patients["p1"] = delivered[s][2].msg.data

\* C2: a failed send to one session neither raises out of broadcast nor keeps
\* the message from another recipient: when broadcast has returned, every
\* session of its recipient copy has the message or has failed its own send.
C2_FailureIsolated ==
    \A b \in DOMAIN bc :
        /\ bc[b].phase # "raised"
        /\ bc[b].phase = "returned" =>
               \A i \in DOMAIN bc[b].copy :
                   bc[b].copy[i] \in bc[b].failed \/ HasFrame(bc[b].copy[i], b)

\* a broadcast returned after one of its sends failed and another was delivered
C2_Witness ==
    \E b \in DOMAIN bc :
        /\ bc[b].phase = "returned"
        /\ bc[b].failed # {}
        /\ \E i \in DOMAIN bc[b].copy :
               bc[b].copy[i] \notin bc[b].failed /\ HasFrame(bc[b].copy[i], b)

\* C3: a session whose send failed in a broadcast is out of the session set,
\* and from then on it receives no frame, also not of a broadcast that had
\* copied the set before.
FailedSessions == UNION { bc[b].failed : b \in DOMAIN bc }
C3_FailedSessionPruned ==
    /\ [](FailedSessions \cap clients = {})
    /\ [][\A s \in FailedSessions : delivered'[s] = delivered[s]]_vars

\* a session failed in one broadcast, and a second broadcast that had copied
\* the set while the session was still in it has returned without reaching it
C3_Witness ==
    \E b1, b2 \in DOMAIN bc : \E s \in bc[b1].failed :
        /\ b1 # b2
        /\ s \in bc[b2].set_at_copy
        /\ bc[b2].phase = "returned"
        /\ ~HasFrame(s, b2)
        /\ s \notin clients

\* C4: the recipients of a broadcast are the sessions in the set when the
\* copy is taken: each gets one _send_safe task, started once, and no other
\* session gets any, whatever joins or leaves afterwards.
C4_RecipientsAreTheCopy ==
    /\ \A b \in DOMAIN bc :
        bc[b].phase # "created" =>
            \* the copy lists the set at copy time, each session once
            /\ Len(bc[b].copy) = Cardinality(bc[b].set_at_copy)
            /\ \A s \in bc[b].set_at_copy : \E i \in DOMAIN bc[b].copy : bc[b].copy[i] = s
            \* the sends started so far are those of the first sessions of the copy
            /\ Len(bc[b].started) <= Len(bc[b].copy)
            /\ \A i \in DOMAIN bc[b].started : bc[b].started[i] = bc[b].copy[i]
            \* and the others have their task waiting
            /\ \A i \in DOMAIN bc[b].copy :
                   i > Len(bc[b].started) => Scheduled(b, bc[b].copy[i])
    \* no task but these: a waiting task is of a session of the copy whose send
    \* has not started, and it is the only one for that session
    /\ \A j \in DOMAIN ready :
        ready[j].k = "send_safe" =>
            /\ \E i \in DOMAIN bc[ready[j].b].copy :
                   i > Len(bc[ready[j].b].started) /\ bc[ready[j].b].copy[i] = ready[j].s
            /\ \A k \in DOMAIN ready : (k # j /\ ready[k].k = "send_safe") =>
                   (ready[k].b # ready[j].b \/ ready[k].s # ready[j].s)

\* every send of a broadcast is under way, and the set holds a session that
\* joined after the copy was taken
C4_Witness ==
    \E b \in DOMAIN bc :
        /\ bc[b].phase = "gathering"
        /\ Len(bc[b].started) = Len(bc[b].copy)
        /\ (clients \ bc[b].set_at_copy) # {}

\* -----------------------------------------------------------------
\* the alerts pushed on the ring come, connection by connection, in the order
\* in which the connection's lines arrived
PushedInArrivalOrder ==
    \A i, j \in DOMAIN pushed :
        (i < j /\ wire.lines[pushed[i].timestamp].c = wire.lines[pushed[j].timestamp].c)
            => pushed[i].timestamp < pushed[j].timestamp
Min(a, b) == IF a < b THEN a ELSE b
\* ring holds the last Min(n, 20) of the first n alerts pushed, latest first
LatestFirst(ring, n) ==
    /\ Len(ring) = Min(n, 20)
    /\ \A i \in DOMAIN ring : ring[i] = pushed[n + 1 - i]

\* C5: the alert ring never holds more than 20 alerts; after N valid alert
\* lines it holds the last min(N, 20) of them, most recent first, the oldest
\* having been evicted.
C5_RingHoldsLastTwenty ==
    /\ Len(recent_alerts) <= 20
    /\ LatestFirst(recent_alerts, Len(pushed))
    /\ PushedInArrivalOrder

\* more than 20 alerts were ingested: the ring is full, its last entry is the
\* twentieth most recent alert and the first alert is gone
C5_Witness ==
    /\ Len(pushed) > 20
    /\ Len(recent_alerts) = 20
    /\ recent_alerts[1] = pushed[Len(pushed)]
    /\ \A i \in DOMAIN recent_alerts : recent_alerts[i] # pushed[1]

\* -----------------------------------------------------------------
\* the store that the first n datagrams received leave, by the rule of the
\* specification: each valid datagram replaces its patient's entry
RECURSIVE LastWrites(_, _)
LastWrites(ds, n) ==
    IF n = 0 THEN << >>
    ELSE LET prev == LastWrites(ds, n - 1)
             d == ds[n]
         IN  IF ParsesTelemetry(d)
             THEN [x \in DOMAIN prev \cup {d.payload.patient_id} |->
                      IF x = d.payload.patient_id THEN TelemetryMessage(d.payload)
                      ELSE prev[x]]
             ELSE prev
SameMap(f, g) == DOMAIN f = DOMAIN g /\ \A x \in DOMAIN f : f[x] = g[x]
\* the snapshot frames of session s, sent or waiting to be sent
Snapshots(s) ==
    { delivered[s][i].msg : i \in { j \in DOMAIN delivered[s] : IsSnapshot(delivered[s][j]) } }
    \cup { chan[s][i].msg : i \in { j \in DOMAIN chan[s] : IsSnapshot(chan[s][j]) } }

\* C6: after a valid datagram is handled the store maps its patient to the
\* parsed record, whatever the timestamps (the last write wins) and leaves the
\* other patients' entries alone; the snapshot of a session that joins later
\* carries that entry.
C6_LastWriteWins ==
    /\ SameMap(latest_vitals_by_patient, LastWrites(wire.datagrams, wire.handled))
    /\ \A s \in Viewers : \A m \in Snapshots(s) :
           SameMap(m.data.patients, LastWrites(wire.datagrams, ws[s].joined_at.datagrams))

\* a datagram with an older timestamp replaced the entry of its patient, next
\* to another patient's entry, and a session that joined afterwards was sent it
C6_Witness ==
    /\ wire.handled >= 2
    /\ \E i, j \in 1..wire.handled :
          /\ i < j
          /\ ParsesTelemetry(wire.datagrams[i])
          /\ ParsesTelemetry(wire.datagrams[j])
          /\ wire.datagrams[i].payload.patient_id = wire.datagrams[j].payload.patient_id
          /\ wire.datagrams[i].payload.timestamp > wire.datagrams[j].payload.timestamp
          /\ \A k \in (j + 1)..wire.handled : ~ParsesTelemetry(wire.datagrams[k])
          /\ \E s \in Viewers :
                /\ ws[s].joined_at.datagrams >= j
                /\ \E f \in DOMAIN delivered[s] :
                      /\ IsSnapshot(delivered[s][f])
                      /\ delivered[s][f].msg.data.patients[wire.datagrams[j].payload.patient_id]
                            = TelemetryMessage(wire.datagrams[j].payload)

\* -----------------------------------------------------------------
\* the patients of the valid datagrams among the first n received
PatientsOf(n) ==
    { wire.datagrams[i].payload.patient_id :
        i \in { j \in 1..n : ParsesTelemetry(wire.datagrams[j]) } }

\* C7: the snapshot of a session is the state at one point in time: with N
\* alerts ingested and M patients stored when it is built, it carries
\* min(N, 20) alerts in ring order and exactly M patient entries.
C7_SnapshotIsPointInTime ==
    \A s \in Viewers : \A m \in Snapshots(s) :
        /\ LatestFirst(m.data.alerts, ws[s].joined_at.alerts)
        /\ Cardinality(DOMAIN m.data.patients)
              = Cardinality(PatientsOf(ws[s].joined_at.datagrams))

\* a session that joined after more than 20 alerts and a datagram was sent a
\* snapshot of 20 alerts and one patient
C7_Witness ==
    \E s \in Viewers : \E f \in DOMAIN delivered[s] :
        /\ IsSnapshot(delivered[s][f])
        /\ ws[s].joined_at.alerts > 20
        /\ Len(delivered[s][f].msg.data.alerts) = 20
        /\ DOMAIN delivered[s][f].msg.data.patients # {}

\* -----------------------------------------------------------------
\* section 3 of the specification: the fields and ranges of a telemetry datagram
WithinRanges(v) ==
    /\ {"heart_rate", "spo2", "blood_pressure_sys", "blood_pressure_dia", "temperature",
        "respiration_rate"} \subseteq DOMAIN v
    /\ v.heart_rate >= 0 /\ v.heart_rate <= 260
    /\ v.spo2 >= 0 /\ v.spo2 <= 100
    /\ v.blood_pressure_sys >= 0 /\ v.blood_pressure_sys <= 300
    /\ v.blood_pressure_dia >= 0 /\ v.blood_pressure_dia <= 200
    /\ v.temperature >= 25 /\ v.temperature <= 45
    /\ v.respiration_rate >= 0 /\ v.respiration_rate <= 80
MalformedDatagram(d) ==
    \/ d.raw # "object"
    \/ ~ ({"patient_id", "timestamp", "vitals"} \subseteq DOMAIN d.payload)
    \/ ~ WithinRanges(d.payload.vitals)

\* C8: a malformed datagram (undecodable, not JSON, a field missing, a vital
\* out of range) changes neither the store nor the ring and starts no
\* broadcast; the datagrams that follow it are ingested.
C8_MalformedDatagramDropped ==
    /\ [][ (/\ Running("udp")
            /\ MalformedDatagram(Head(ready).d)
            /\ wire'.handled = wire.handled + 1)
              => (/\ latest_vitals_by_patient' = latest_vitals_by_patient
                  /\ recent_alerts' = recent_alerts
                  /\ bc' = bc
                  /\ ready' = Tail(ready)) ]_vars
    /\ [] (\A i \in 1..wire.handled :
              ~MalformedDatagram(wire.datagrams[i])
                  => /\ wire.datagrams[i].payload.patient_id \in DOMAIN latest_vitals_by_patient
                     /\ \E b \in DOMAIN bc :
                           /\ bc[b].msg.type = "telemetry"
                           /\ bc[b].msg.data.timestamp = wire.datagrams[i].payload.timestamp)

\* an out-of-range datagram was dropped with nothing stored, and the valid
\* datagram behind it was stored
C8_Witness ==
    /\ wire.handled = 2
    /\ wire.datagrams[1].raw = "object"
    /\ "vitals" \in DOMAIN wire.datagrams[1].payload
    /\ MalformedDatagram(wire.datagrams[1])
    /\ ~MalformedDatagram(wire.datagrams[2])
    /\ DOMAIN latest_vitals_by_patient = {wire.datagrams[2].payload.patient_id}

\* -----------------------------------------------------------------
\* section 3 of the specification: the fields of an alert line
WellFormedLine(l) ==
    /\ l.raw = "object"
    /\ {"patient_id", "timestamp", "type", "message", "severity"} \subseteq DOMAIN l.payload
\* line n is on its way to the handler: in a handle of the loop or in the
\* stream's buffer
PendingLine(n) ==
    \/ \E i \in DOMAIN ready : ready[i].k = "tcp_data" /\ ready[i].line.n = n
    \/ \E c \in Conns : \E i \in DOMAIN conn[c].buf : conn[c].buf[i].n = n
Ingested(n) == \E i \in DOMAIN pushed : pushed[i].timestamp = n
AlertBroadcasts(n) ==
    { b \in DOMAIN bc : bc[b].msg.type = "alert" /\ bc[b].msg.data.timestamp = n }

C10_IngestionNeverStalls ==
    /\ \A n \in 1..MaxEvents : (Len(wire.datagrams) >= n) ~> (wire.handled >= n)
    /\ \A c \in Conns : (conn[c].buf # << >>) ~> (conn[c].buf = << >>)
\* -----------------------------------------------------------------
\* the frames of session s in the order of their send_text calls: received,
\* then waiting
Frames(s) == delivered[s] \o chan[s]

\* C11: the broadcasts reach a session in the order in which they were
\* issued, that is in which their calls started to run (in the task of line
\* 89 for a datagram, in the handler or the emitter otherwise), also when
\* sends are suspended and several broadcasts are in flight.
C11_DeliveryOrderPreserved ==
    \A s \in Viewers : \A i, j \in DOMAIN Frames(s) :
        (i < j /\ ~IsSnapshot(Frames(s)[i]) /\ ~IsSnapshot(Frames(s)[j]))
            => bc[Frames(s)[i].b].issued < bc[Frames(s)[j].b].issued

\* two broadcasts are in flight with their sends to one session suspended:
\* the alert's, issued first by the handler, and behind it the telemetry's,
\* whose datagram had been handled before the alert line was read
C11_Witness ==
    \E s \in Viewers :
        /\ Len(chan[s]) >= 2
        /\ ~IsSnapshot(chan[s][1])
        /\ bc[chan[s][1].b].caller.k = "tcp"
        /\ bc[chan[s][2].b].caller.k = "udp"
        /\ chan[s][2].b < chan[s][1].b
        /\ bc[chan[s][1].b].phase = "gathering"
        /\ bc[chan[s][2].b].phase = "gathering"
\* -----------------------------------------------------------------
\* the connections whose handler has started and has not reached line 137
Counted == { c \in Conns : conn[c].pc \in {"readline", "woken", "broadcast", "closing"} }

\* C12: the counter of stream connections is never negative, it counts each
\* connection once from its handler's start to its close, and a connection
\* whose end-of-stream has arrived is closed and leaves the count, so that
\* the cn_stats messages issued from then on report the decremented value.
C12_CounterTracksConnections ==
    /\ [](tcp_connections_count >= 0)
    /\ [](tcp_connections_count = Cardinality(Counted))
    /\ \A c \in Conns : conn[c].eof ~> (conn[c].pc = "closed")
\* -----------------------------------------------------------------
\* the severities of the wire format
Severities == {"low", "medium", "high"}

\* C13: every alert in the ring and every alert that is broadcast has a
\* severity out of low, medium, high: a line with another severity fails
\* validation and is skipped.
C13_SeverityIsEnumerated ==
    /\ \A i \in DOMAIN recent_alerts : recent_alerts[i].severity \in Severities
    /\ \A b \in DOMAIN bc :
           bc[b].msg.type = "alert" => bc[b].msg.data.severity \in Severities

\* -----------------------------------------------------------------
\* C14: every entry of the patient map is stored under its own patient_id,
\* which is a non-empty string, and carries vitals within the declared
\* ranges: a datagram that violates one of these is dropped.
C14_PatientEntriesAreValid ==
    \A k \in DOMAIN latest_vitals_by_patient :
        /\ latest_vitals_by_patient[k].patient_id = k
        /\ k # ""
        /\ WithinRanges(latest_vitals_by_patient[k].vitals)
\* -----------------------------------------------------------------
\* C15: once shutdown has run, the datagram socket is closed, the stream
\* server takes no new connection, and every stream connection and every
\* viewer session that was open is closed.
C15_ShutdownClosesEverything ==
    servers.shutdown = "done" =>
        /\ servers.udp_transport = "closed"
        /\ servers.tcp_server = "closed"
        /\ \A c \in Conns : conn[c].pc \in {"none", "closed"}
        /\ \A s \in Viewers : ws[s].transport # "open"
\* -----------------------------------------------------------------
\* the sessions for which _send_safe has called disconnect
SendFailed(s) == \E b \in DOMAIN bc : s \in bc[b].failed
\* the sessions whose handler has called disconnect (line 181)
HandlerLeft(s) == ws[s].pc = "ended" /\ ws[s].exit = "disconnect"

\* C16: disconnect is idempotent.  A session for which disconnect was called,
\* once or twice (by a failed send of a broadcast, by its own handler), is out
\* of the set; the second call changes nothing: every session that has
\* joined and for which disconnect was never called is still in the set.
C16_DisconnectIsIdempotent ==
    \A s \in Viewers :
        /\ (SendFailed(s) \/ HandlerLeft(s)) => s \notin clients
        /\ (ws[s].pc \in {"snapshot", "receiving"} /\ ~SendFailed(s)) => s \in clients

\* disconnect was called twice for one session, by a failed send and by its
\* handler, while another session is in the set
C16_Witness ==
    \E s, t \in Viewers :
        /\ SendFailed(s) /\ HandlerLeft(s)
        /\ s \notin clients
        /\ t # s /\ t \in clients
\* -----------------------------------------------------------------
\* C17: a session is in the set only while it is live: once its handler has
\* ended, by a client disconnect, by a failed snapshot send or by another
\* failure of its receive loop, the session is not in the set.
C17_EndedSessionNotInSet ==
    \A s \in Viewers : ws[s].pc = "ended" => s \notin clients
\* -----------------------------------------------------------------
\* session s has joined: it is in the set and its snapshot was built
Joined(s) == ws[s].pc \in {"snapshot", "receiving"}
\* broadcast b is the n-th of its type, so its event was the n-th written
Ordinal(b) == Cardinality({ x \in 1..b : bc[x].msg.type = bc[b].msg.type })
\* the event of broadcast b was written to the store after the snapshot of
\* session s was built
WrittenAfterJoin(s, b) ==
    /\ b \in DOMAIN bc
    /\ Joined(s)
    /\ \/ bc[b].msg.type = "telemetry" /\ Ordinal(b) > ws[s].joined_at.datagrams
       \/ bc[b].msg.type = "alert" /\ Ordinal(b) > ws[s].joined_at.alerts

\* C18: no event is lost across a join: a viewer whose sends succeed receives
\* as a broadcast every telemetry and alert event that was written to the
\* store after its snapshot was built.
C18_NoEventLostAcrossJoin ==
    \A s \in Viewers : \A b \in 1..(MaxIngestEvents + 1) :
        WrittenAfterJoin(s, b) ~> HasFrame(s, b)

\* a session has its snapshot and, after it, the broadcast of an alert that
\* was appended after the snapshot was built
C18_Witness ==
    \E s \in Viewers : \E b \in DOMAIN bc :
        /\ WrittenAfterJoin(s, b)
        /\ bc[b].msg.type = "alert"
        /\ Len(delivered[s]) >= 2
        /\ IsSnapshot(delivered[s][1])
        /\ HasFrame(s, b)
\* -----------------------------------------------------------------
\* the alert of broadcast b is among the alerts of snapshot frame f
InSnapshot(b, f) ==
    \E k \in DOMAIN f.msg.data.alerts : f.msg.data.alerts[k] = bc[b].msg.data
InCopy(s, b) == \E k \in DOMAIN bc[b].copy : bc[b].copy[k] = s

\* C19: an alert is appended to the ring and the recipients of its broadcast
\* are copied with no join in between: a session whose snapshot carries an
\* alert joined after the copy of that alert was taken, it is not among the
\* recipients and never gets the alert as a broadcast as well.
C19_AlertInSnapshotOrBroadcast ==
    \A s \in Viewers : \A i \in DOMAIN Frames(s) : \A b \in DOMAIN bc :
        (/\ IsSnapshot(Frames(s)[i])
         /\ bc[b].msg.type = "alert"
         /\ InSnapshot(b, Frames(s)[i]))
            => /\ ~InCopy(s, b)
               /\ \A j \in DOMAIN Frames(s) : Frames(s)[j].b # b

\* one session got an alert as a broadcast, another one joined afterwards
\* and got the same alert in its snapshot
C19_Witness ==
    \E s, t \in Viewers : \E b \in DOMAIN bc :
        /\ bc[b].msg.type = "alert"
        /\ HasFrame(t, b)
        /\ ~InCopy(s, b)
        /\ delivered[s] # << >>
        /\ IsSnapshot(delivered[s][1])
        /\ InSnapshot(b, delivered[s][1])
\* -----------------------------------------------------------------
\* a coroutine that will call disconnect for session s is ready to run
DisconnectPending(s) ==
    \E i \in DOMAIN ready :
        /\ ready[i].k \in {"send_safe", "send_wake", "ws_wake"}
        /\ ready[i].s = s
        /\ RequestsLock(ready[i])

\* C20: the hub does not deadlock on its lock, even while the send to some
\* viewer never completes: a connect whose accept() is over adds its session,
\* a broadcast that was started takes its copy, and a disconnect that is due
\* removes its session.
C20_LockIsAlwaysObtained ==
    /\ \A s \in Viewers : (ws[s].pc = "accepted") ~> (ws[s].pc # "accepted")
    /\ \A b \in 1..(MaxIngestEvents + 1) :
           (b \in DOMAIN bc /\ bc[b].phase = "created")
               ~> (b \in DOMAIN bc /\ bc[b].phase # "created")
    /\ \A s \in Viewers :
           (s \in clients /\ DisconnectPending(s)) ~> (s \notin clients)

\* the send of a broadcast to one session is still waiting, and another
\* session has joined since the copy of that broadcast was taken
C20_Witness ==
    \E s, t \in Viewers : \E b \in DOMAIN bc :
        /\ bc[b].phase = "gathering"
        /\ \E i \in DOMAIN chan[t] : chan[t][i].b = b
        /\ s # t /\ ~InCopy(s, b)
        /\ s \in clients
====
